---- MODULE Spec2Model ----
(***************************************************************************)
(* Model of the cloud tasks emulator: the Task life cycle of task.go       *)
(* (Schedule / Attempt / Run / Delete, the three state updates and the     *)
(* backoff computation), the task registry of the emulator server, and the *)
(* queue's admission path between a fired task and its Attempt.            *)
(***************************************************************************)
EXTENDS Integers, Sequences, FiniteSets, TLC

(***************************************************************************)
(* int64 arithmetic.  A Go int64 is kept as four 16-bit limbs, least       *)
(* significant first, in two's complement, so that every operation wraps   *)
(* modulo 2^64 exactly as the compiled code does.                          *)
(***************************************************************************)
Limb == 2 ^ 16

Zero64 == <<0, 0, 0, 0>>

One64 == <<1, 0, 0, 0>>

\* the limbs of a sum, from limb i on
RECURSIVE AddLimbs(_, _, _, _)
AddLimbs(a, b, i, carry) ==
    IF i > 4 THEN <<>>
    ELSE <<(a[i] + b[i] + carry) % Limb>>
         \o AddLimbs(a, b, i + 1, (a[i] + b[i] + carry) \div Limb)

I64Add(a, b) == AddLimbs(a, b, 1, 0)

I64Not(a) == <<Limb - 1 - a[1], Limb - 1 - a[2], Limb - 1 - a[3], Limb - 1 - a[4]>>

I64Neg(a) == AddLimbs(I64Not(a), One64, 1, 0)

I64Sub(a, b) == AddLimbs(a, I64Not(b), 1, 1)

I64IsNeg(a) == a[4] >= Limb \div 2

\* unsigned comparison of the limbs, most significant limb first
U64Lt(a, b) ==
    \/ a[4] < b[4]
    \/ a[4] = b[4] /\ a[3] < b[3]
    \/ a[4] = b[4] /\ a[3] = b[3] /\ a[2] < b[2]
    \/ a[4] = b[4] /\ a[3] = b[3] /\ a[2] = b[2] /\ a[1] < b[1]

\* signed a < b
I64Lt(a, b) ==
    IF (a[4] >= Limb \div 2) # (b[4] >= Limb \div 2) THEN a[4] >= Limb \div 2
    ELSE U64Lt(a, b)

I64Le(a, b) == ~I64Lt(b, a)

\* an int of the model (|n| < 2^31) as an int64
I64(n) ==
    IF n >= 0 THEN <<n % Limb, n \div Limb, 0, 0>>
    ELSE AddLimbs(<<Limb - 1 - ((-n) % Limb), Limb - 1 - ((-n) \div Limb),
                    Limb - 1, Limb - 1>>, One64, 1, 0)

Bytes64(a) ==
    <<a[1] % 256, a[1] \div 256, a[2] % 256, a[2] \div 256,
      a[3] % 256, a[3] \div 256, a[4] % 256, a[4] \div 256>>

\* the k-th column of the schoolbook product of two byte strings, from row i on
RECURSIVE MulColumn(_, _, _, _)
MulColumn(x, y, k, i) ==
    IF i > k THEN 0 ELSE x[i] * y[k + 1 - i] + MulColumn(x, y, k, i + 1)

\* the bytes of the product from byte k on (the ninth byte and above are dropped)
RECURSIVE MulBytes(_, _, _, _)
MulBytes(x, y, k, carry) ==
    IF k > 8 THEN <<>>
    ELSE <<(MulColumn(x, y, k, 1) + carry) % 256>>
         \o MulBytes(x, y, k + 1, (MulColumn(x, y, k, 1) + carry) \div 256)

Pack64(r) ==
    <<r[1] + 256 * r[2], r[3] + 256 * r[4], r[5] + 256 * r[6], r[7] + 256 * r[8]>>

\* a * b, wrapping modulo 2^64
I64Mul(a, b) == Pack64(MulBytes(Bytes64(a), Bytes64(b), 1, 0))

\* 1 << uint32(k) at type int64: a shift count of 64 or more (which is what
\* uint32 makes of a negative k) leaves no bit
ShiftOne(k) ==
    IF k < 0 \/ k >= 64 THEN Zero64
    ELSE <<IF k \div 16 = 0 THEN 2 ^ (k % 16) ELSE 0,
           IF k \div 16 = 1 THEN 2 ^ (k % 16) ELSE 0,
           IF k \div 16 = 2 THEN 2 ^ (k % 16) ELSE 0,
           IF k \div 16 = 3 THEN 2 ^ (k % 16) ELSE 0>>

NanosPerSecond == 1000000000

Second64 == <<51712, 15258, 0, 0>>

\* 1e9 = 2^9 * 5^9: the division by 1e9 is a shift by nine bits and a long
\* division by 5^9 on bytes, which stays within the integers of the model
FiveToNine == 5 ^ 9

\* the seven bytes of an unsigned 64-bit value shifted right by nine bits
ShiftedBytes(x) ==
    <<(x[2] \div 2) + (x[3] % 2) * 128, (x[3] \div 2) + (x[4] % 2) * 128,
      (x[4] \div 2) + (x[5] % 2) * 128, (x[5] \div 2) + (x[6] % 2) * 128,
      (x[6] \div 2) + (x[7] % 2) * 128, (x[7] \div 2) + (x[8] % 2) * 128,
      x[8] \div 2>>

DivDigit(n, st) == [quot |-> <<n \div FiveToNine>> \o st.quot, rem |-> n % FiveToNine]

DivByte(digit, st) == DivDigit(st.rem * 256 + digit, st)

\* long division by 5^9 of the bytes k..7 of y: the quotient's bytes, least
\* significant first, and the remainder
RECURSIVE DivHigh(_, _)
DivHigh(y, k) ==
    IF k > 7 THEN [quot |-> <<>>, rem |-> 0]
    ELSE DivByte(y[k], DivHigh(y, k + 1))

DivResult(x, st) ==
    [quot |-> Pack64(st.quot \o <<0>>), rem |-> st.rem * 512 + x[1] + (x[2] % 2) * 256]

\* quotient and remainder of an unsigned 64-bit value by 1e9
U64DivModSecond(m) == DivResult(Bytes64(m), DivHigh(ShiftedBytes(Bytes64(m)), 1))

NegateDivMod(u) == [quot |-> I64Neg(u.quot), rem |-> -u.rem]

\* Go's d / 1e9 and d % 1e9 on int64: the quotient truncates toward zero and
\* the remainder takes the sign of d
I64DivModSecond(d) ==
    IF I64IsNeg(d)
    THEN NegateDivMod(U64DivModSecond(I64Neg(d)))
    ELSE U64DivModSecond(d)

(***************************************************************************)
(* Bounds of the model.                                                    *)
(***************************************************************************)
\* Run calls on one task
MaxRuns == 1

\* dispatch counts over which the backoff function is tabulated
MaxCount == 70

\* the task instances
Tasks == {1, 2}

TaskNames == {"a"}

QueueNames == {"q"}

\* status codes dispatch() returns: -1 when there is no response
StatusCodes == {-1, 200, 500}

(***************************************************************************)
(* Protobuf durations and timestamps: int64 seconds and int32 nanos.       *)
(***************************************************************************)
Dur(s, n) == [seconds |-> I64(s), nanos |-> n]

\* 10000 years of seconds, the range of a valid duration
MaxDurationSeconds == I64Mul(I64(315576), I64(1000000))

\* ptypes.validateDuration: within +-10000 years, |nanos| < 1e9, one sign
validDuration(p) ==
    /\ I64Le(I64Neg(MaxDurationSeconds), p.seconds)
    /\ I64Le(p.seconds, MaxDurationSeconds)
    /\ p.nanos > -NanosPerSecond
    /\ p.nanos < NanosPerSecond
    /\ ~(I64IsNeg(p.seconds) /\ p.nanos > 0)
    /\ ~(I64Lt(Zero64, p.seconds) /\ p.nanos < 0)

\* d is the seconds of p in nanoseconds, d2 is d plus the nanos of p: either
\* overflow makes the conversion fail
checkedDuration(p, d, d2) ==
    IF I64DivModSecond(d).quot # p.seconds THEN Zero64
    ELSE IF p.nanos = 0 THEN d
    ELSE IF I64IsNeg(d2) # (p.nanos < 0) THEN Zero64
    ELSE d2

secondsAndNanos(p, d) == checkedDuration(p, d, I64Add(d, I64(p.nanos)))

\* ptypes.Duration: the time.Duration (int64 nanoseconds) of a proto duration;
\* the caller drops the error, so an invalid or out-of-range value reads as 0
ptypesDuration(p) ==
    IF ~validDuration(p) THEN Zero64
    ELSE secondsAndNanos(p, I64Mul(p.seconds, Second64))

divModToProto(q) == [seconds |-> q.quot, nanos |-> q.rem]

\* ptypes.DurationProto: seconds = d / 1e9, nanos = d - seconds * 1e9
DurationProto(d) == divModToProto(I64DivModSecond(d))

\* int32(x): the low 32 bits of an int64, read as a signed number
Int32(x) ==
    IF x[2] >= Limb \div 2 THEN (x[2] - Limb) * Limb + x[1] ELSE x[2] * Limb + x[1]

capBackoff(backoff, maxBackoff) ==
    IF I64Lt(maxBackoff, backoff) THEN maxBackoff ELSE backoff

capDoubling(doubling, maxDoublings) ==
    IF doubling > maxDoublings THEN maxDoublings ELSE doubling

\* a backoff that doubles once too often: doubling = dispatchCount
backoffFor_NoMinusOne(taskState, retryConfig) ==
    capBackoff(I64Mul(ptypesDuration(retryConfig.minBackoff),
                      ShiftOne(capDoubling(taskState.dispatchCount,
                                           retryConfig.maxDoublings))),
               ptypesDuration(retryConfig.maxBackoff))

\* the backoff before the next attempt of a task whose state is taskState:
\* minBackoff * (1 << doubling), at most maxBackoff
backoffFor(taskState, retryConfig) ==
    capBackoff(I64Mul(ptypesDuration(retryConfig.minBackoff),
                      ShiftOne(capDoubling(taskState.dispatchCount - 1,
                                           retryConfig.maxDoublings))),
               ptypesDuration(retryConfig.maxBackoff))

\* the carry of the nanos into the seconds, and the narrowing to int32
normalizedTimestamp(scheduleSeconds, scheduleNanos) ==
    IF I64Le(Second64, scheduleNanos)
    THEN [nanos |-> Int32(I64Sub(scheduleNanos, Second64)),
          seconds |-> I64Add(scheduleSeconds, One64)]
    ELSE [nanos |-> Int32(scheduleNanos), seconds |-> scheduleSeconds]

addBackoff(prevScheduleTime, protoBackoff) ==
    normalizedTimestamp(I64Add(prevScheduleTime.seconds, protoBackoff.seconds),
                        I64Add(I64(prevScheduleTime.nanos), I64(protoBackoff.nanos)))

\* the state update of a reschedule: schedule time += backoff
updateStateForReschedule(taskState, retryConfig) ==
    [taskState EXCEPT !.scheduleTime =
        addBackoff(taskState.scheduleTime,
                   DurationProto(backoffFor(taskState, retryConfig)))]

(***************************************************************************)
(* The state update operations of a task (each runs under stateMutex).     *)
(***************************************************************************)
NoAttempt ==
    [set |-> FALSE, scheduleTime |-> Dur(0, 0), dispatchTime |-> 0,
     responded |-> FALSE, responseTime |-> 0, statusCode |-> 0]

\* a time stamp TimestampNow() takes is kept as the number of the dispatch
\* that took it
updateStateForDispatch(taskState) ==
    LET k == taskState.dispatchCount + 1
    IN  [taskState EXCEPT
            !.lastAttempt = [set |-> TRUE,
                             scheduleTime |-> [nanos |-> taskState.scheduleTime.nanos,
                                               seconds |-> taskState.scheduleTime.seconds],
                             dispatchTime |-> k,
                             responded |-> FALSE, responseTime |-> 0, statusCode |-> 0],
            !.dispatchCount = k,
            !.firstAttempt = IF taskState.firstAttempt = 0 THEN k
                             ELSE taskState.firstAttempt]

\* a response count set from the number of the dispatch instead of counted
updateStateAfterDispatch_SetCount(taskState, statusCode, k) ==
    [taskState EXCEPT
        !.lastAttempt = [taskState.lastAttempt EXCEPT
                            !.responded = TRUE,
                            !.responseTime = k,
                            !.statusCode = statusCode],
        !.responseCount = k]

\* the dispatch numbered k returned statusCode
updateStateAfterDispatch(taskState, statusCode, k) ==
    [taskState EXCEPT
        !.lastAttempt = [taskState.lastAttempt EXCEPT
                            !.responded = TRUE,
                            !.responseTime = k,
                            !.statusCode = statusCode],
        !.responseCount = taskState.responseCount + 1]

\* a state update that returns the task's own state instead of a copy
Clone_Alias(taskState) == [shared |-> TRUE, val |-> taskState]

\* proto.Clone: the frozen snapshot a state update returns
Clone(taskState) == [shared |-> FALSE, val |-> taskState]

\* a reschedule that does not look at retry
reschedule_IgnoreRetry(retry, statusCode, dispatchCount, retryConfig) ==
    IF statusCode >= 200 /\ statusCode <= 299 THEN "done"
    ELSE IF dispatchCount >= retryConfig.maxAttempts THEN "exhausted" ELSE "retry"

\* what reschedule does with a result: "done" calls onDone, "exhausted" logs
\* that the task ran out of attempts, "retry" goes on to updateStateForReschedule
\* and Schedule, "none" does nothing
reschedule(retry, statusCode, dispatchCount, retryConfig) ==
    IF statusCode >= 200 /\ statusCode <= 299 THEN "done"
    ELSE IF retry
         THEN IF dispatchCount >= retryConfig.maxAttempts THEN "exhausted" ELSE "retry"
         ELSE "none"

(***************************************************************************)
(* State.                                                                  *)
(***************************************************************************)
VARIABLES
    retryConfig,  \* queue.state.RetryConfig of the one queue
    ts,           \* Server.ts: task name -> <<task>>, or <<>> for a nil entry
    created,      \* task instances constructed so far
    task,         \* the Task structs and the goroutines working on them
    hist,         \* what has happened to each task
    bk,           \* the backoff table: a policy, a dispatch count, the backoff
    qs,           \* Server.qs: queue name -> <<queue>>, or <<>> for a nil entry
    queue,        \* the Queue of each name: its state and the tasks it owns
    crashed,      \* a request handler has panicked: the process is gone
    deleted,      \* the queue names for which DeleteQueue has succeeded
    limit         \* the task instances and the Run calls a behaviour may have

vars == <<retryConfig, ts, created, task, hist, bk, qs, queue, crashed, deleted, limit>>

NoTaskState ==
    [scheduleTime |-> Dur(0, 0), dispatchCount |-> 0, responseCount |-> 0,
     firstAttempt |-> 0, lastAttempt |-> NoAttempt]

\* a Task: its fields, the goroutines of Schedule() by where they stand
\* (waiting in the select, timer elapsed, blocked sending on queue.fire), the
\* times the queue holds it ready for a worker, and the dispatches in flight
NoTask ==
    [name |-> "", queue |-> "", state |-> NoTaskState, cancel |-> 0,
     cancelOnce |-> FALSE, registered |-> FALSE,
     waiting |-> 0, elapsed |-> 0, sending |-> 0, ready |-> 0,
     disp |-> {}]

\* the snapshot the Run numbered k returned, and the dispatch count before it
NoSnapshot == [set |-> FALSE, k |-> 0, prev |-> 0, snap |-> Clone(NoTaskState)]

NoHist ==
    [onDone |-> 0, runs |-> 0, calls |-> 0, completed |-> 0,
     exhausted |-> FALSE,
     increments |-> <<>>, lastBackoff |-> Zero64, prevSchedule |-> Dur(0, 0),
     cancelledEarly |-> FALSE, firedAfterCancel |-> FALSE,
     done2xx |-> FALSE, attemptAfter2xx |-> FALSE, runFailed |-> FALSE,
     returned |-> NoSnapshot,
     scheduled |-> 0, fires |-> 0, cancels |-> 0,
     lateCreated |-> FALSE, ownedAtDelete |-> FALSE, followed |-> FALSE]

\* a Queue: RUNNING or PAUSED, deleted (cancelled) or not, and the tasks it
\* owns by name: <<task>>, or <<>> once the task is removed
NoQueue == [state |-> "RUNNING", cancelled |-> FALSE, ts |-> <<>>]

\* a row of the backoff table: the dispatch count, its backoff, and the
\* backoff of the count before
NoBackoff == [on |-> FALSE, count |-> 0, backoff |-> Zero64, prev |-> Zero64]

\* 146 years: a valid duration of more than 2^62 nanoseconds
BigBackoff == [seconds |-> I64Add(I64Mul(I64(46116), I64(100000)), I64(86019)),
               nanos |-> 0]

\* the policy of the backoff scenario
ScenarioPolicy ==
    [maxAttempts |-> 5, minBackoff |-> Dur(1, 0), maxBackoff |-> Dur(10, 0),
     maxDoublings |-> 3]

\* retry policies a queue is created with
RetryConfigs ==
    { ScenarioPolicy,
      [maxAttempts |-> 3, minBackoff |-> Dur(0, 200000000),
       maxBackoff |-> Dur(0, 500000000), maxDoublings |-> 2],
      [maxAttempts |-> 0, minBackoff |-> Dur(1, 0), maxBackoff |-> Dur(2, 0),
       maxDoublings |-> 1],
      [maxAttempts |-> 3, minBackoff |-> BigBackoff, maxBackoff |-> BigBackoff,
       maxDoublings |-> 1] }

\* schedule times a task is created with
ScheduleTimes == {Dur(5, 900000000)}

\* NewServer: both maps empty
NewServer ==
    /\ ts = <<>>
    /\ qs = <<>>
    /\ created = 0
    /\ task = [t \in Tasks |-> NoTask]
    /\ hist = [t \in Tasks |-> NoHist]
    /\ queue = [n \in QueueNames |-> NoQueue]
    /\ crashed = FALSE
    /\ deleted = {}

Init ==
    /\ NewServer
    /\ retryConfig \in RetryConfigs
    /\ bk = NoBackoff
    /\ limit = [tasks |-> 1, runs |-> MaxRuns]

\* what a map holds for a name: no entry, a nil entry, or a live object
lookup(m, name) ==
    IF name \notin DOMAIN m THEN "absent"
    ELSE IF m[name] = <<>> THEN "nil"
    ELSE "live"

Live(name) == lookup(ts, name) = "live"

LiveQueue(name) == lookup(qs, name) = "live"

\* the tasks a queue owns
Owned(name) == {t \in Tasks : \E n \in DOMAIN queue[name].ts : queue[name].ts[n] = <<t>>}

\* the queue's task-removal callback: the entry of the task's name goes
removeTask(t) ==
    [queue EXCEPT ![task[t].queue].ts = (task[t].name :> <<>>) @@ @]

\* armed waits of a task: goroutines of Schedule() that have not yet resolved
Armed(t) == task[t].waiting + task[t].elapsed

\* the completion callback: the queue hands the task to the server's callback,
\* which sets the entry of the task's name to nil
onDone(t) == (task[t].name :> <<>>) @@ ts

\* the time of a timestamp in nanoseconds
TsNanos(x) == I64Add(I64Mul(x.seconds, Second64), I64(x.nanos))

\* the goroutine of the dispatch numbered k
Dispatch(k, retry) == [k |-> k, retry |-> retry, pc |-> "call", statusCode |-> 0]

(***************************************************************************)
(* Requests of the server.                                                 *)
(***************************************************************************)
\* NewTask: the initial state of a task and its fields
NewTask(queueName, name, scheduleTime) ==
    [NoTask EXCEPT !.name = name, !.queue = queueName,
                   !.state.scheduleTime = scheduleTime]

\* Schedule(): one more goroutine waits in the select
Schedule(tk) == [tk EXCEPT !.waiting = @ + 1]

\* the error of CreateQueue for a name
CreateQueueError(name) ==
    IF lookup(qs, name) = "live" THEN "AlreadyExists"
    ELSE IF lookup(qs, name) = "nil" THEN "FailedPrecondition"
    ELSE "OK"

\* CreateQueue: a name with an entry, live or nil, is rejected
CreateQueue(name) ==
    /\ ~crashed
    /\ CreateQueueError(name) = "OK"
    /\ queue' = [queue EXCEPT ![name] = NoQueue]
    /\ qs' = (name :> <<name>>) @@ qs
    /\ UNCHANGED <<retryConfig, ts, created, task, hist, bk, crashed, deleted, limit>>

\* the error of CreateTask for the queue it names
CreateTaskError(queueName) ==
    IF lookup(qs, queueName) = "absent" THEN "NotFound"
    ELSE IF lookup(qs, queueName) = "nil" THEN "FailedPrecondition"
    ELSE "OK"

\* CreateTask up to the return of queue.NewTask: the task is constructed,
\* owned by the queue and scheduled, the server has not stored it yet
CreateTask(queueName, name, scheduleTime) ==
    /\ ~crashed
    /\ CreateTaskError(queueName) = "OK"
    /\ created < limit.tasks
    /\ created' = created + 1
    /\ task' = [task EXCEPT
                   ![created + 1] = Schedule(NewTask(queueName, name, scheduleTime))]
    /\ queue' = [queue EXCEPT ![queueName].ts = (name :> <<created + 1>>) @@ @]
    /\ hist' = [hist EXCEPT ![created + 1].scheduled = 1,
                            ![created + 1].lateCreated = queueName \in deleted]
    /\ UNCHANGED <<retryConfig, ts, bk, qs, crashed, deleted, limit>>

\* CreateTask, the rest: s.ts[name] = task
CreateTaskStore(t) ==
    /\ ~crashed
    /\ t <= created
    /\ ~task[t].registered
    /\ ts' = (task[t].name :> <<t>>) @@ ts
    /\ task' = [task EXCEPT ![t].registered = TRUE]
    /\ UNCHANGED <<retryConfig, created, hist, bk, qs, queue, crashed, deleted, limit>>

\* Delete(): cancelOnce lets the first call alone send on the cancel channel
Delete(tk) ==
    IF tk.cancelOnce THEN tk
    ELSE [tk EXCEPT !.cancelOnce = TRUE, !.cancel = @ + 1]

\* a Delete() that comes while a wait is pending and its time has not elapsed
BeforeElapse(t) ==
    /\ ~task[t].cancelOnce
    /\ task[t].waiting > 0
    /\ task[t].elapsed = 0 /\ task[t].sending = 0 /\ task[t].ready = 0

DeleteTask(name) ==
    /\ ~crashed
    /\ Live(name)
    /\ LET t == ts[name][1]
       IN  \* the send blocks while the buffer of one is full
           /\ task[t].cancelOnce \/ task[t].cancel = 0
           /\ task' = [task EXCEPT ![t] = Delete(task[t])]
           /\ hist' = [hist EXCEPT ![t].cancelledEarly = @ \/ BeforeElapse(t),
                                   ![t].followed = @ \/ hist[t].exhausted]
    /\ UNCHANGED <<retryConfig, ts, created, bk, qs, queue, crashed, deleted, limit>>

\* Run(): the state update, the dispatch in a goroutine of its own with retry
\* off, and the snapshot returned to the caller
RunTask(name) ==
    /\ ~crashed
    /\ Live(name)
    /\ LET t == ts[name][1]
           st == updateStateForDispatch(task[t].state)
       IN  /\ hist[t].runs < limit.runs
           /\ task' = [task EXCEPT ![t].state = st,
                                   ![t].disp = @ \cup {Dispatch(st.dispatchCount, FALSE)}]
           /\ hist' = [hist EXCEPT ![t].runs = @ + 1,
                                   ![t].calls = @ + 1,
                                   ![t].followed = @ \/ hist[t].exhausted,
                                   ![t].returned = [set |-> TRUE,
                                                    k |-> st.dispatchCount,
                                                    prev |-> task[t].state.dispatchCount,
                                                    snap |-> Clone(st)]]
    /\ UNCHANGED <<retryConfig, ts, created, bk, qs, queue, crashed, deleted, limit>>

(***************************************************************************)
(* The goroutine of Schedule().                                            *)
(***************************************************************************)
\* the time of a pending wait elapses: the timer's channel becomes ready
TimerElapse(t) ==
    /\ ~crashed
    /\ task[t].waiting > 0
    /\ task' = [task EXCEPT ![t].waiting = @ - 1, ![t].elapsed = @ + 1]
    /\ UNCHANGED <<retryConfig, ts, created, hist, bk, qs, queue, crashed, deleted, limit>>

\* the select takes the timer: the goroutine goes on to send on queue.fire
WaitFire(t) ==
    /\ ~crashed
    /\ task[t].elapsed > 0
    /\ task' = [task EXCEPT ![t].elapsed = @ - 1, ![t].sending = @ + 1]
    /\ hist' = [hist EXCEPT ![t].firedAfterCancel = @ \/ hist[t].cancelledEarly,
                            ![t].fires = @ + 1]
    /\ UNCHANGED <<retryConfig, ts, created, bk, qs, queue, crashed, deleted, limit>>

\* the select takes the cancel signal: onDone
WaitCancel(t) ==
    /\ ~crashed
    /\ task[t].cancel > 0
    /\ \/ /\ task[t].waiting > 0
          /\ task' = [task EXCEPT ![t].cancel = @ - 1, ![t].waiting = @ - 1]
       \/ /\ task[t].elapsed > 0
          /\ task' = [task EXCEPT ![t].cancel = @ - 1, ![t].elapsed = @ - 1]
    /\ ts' = onDone(t)
    /\ queue' = removeTask(t)
    /\ hist' = [hist EXCEPT ![t].onDone = @ + 1, ![t].cancels = @ + 1]
    /\ UNCHANGED <<retryConfig, created, bk, qs, crashed, deleted, limit>>

(***************************************************************************)
(* The queue: it takes a fired task and has a worker call Attempt().       *)
(***************************************************************************)
\* the admission loop, until the queue is deleted, receives a fired task
QueueReceive(t) ==
    /\ ~crashed
    /\ task[t].sending > 0
    /\ ~queue[task[t].queue].cancelled
    /\ task' = [task EXCEPT ![t].sending = @ - 1, ![t].ready = @ + 1]
    /\ UNCHANGED <<retryConfig, ts, created, hist, bk, qs, queue, crashed, deleted, limit>>

\* the queue admits a ready task while it is running and not deleted
Admits(name) == queue[name].state = "RUNNING" /\ ~queue[name].cancelled

\* Attempt(): the state update, then the dispatch with retry on
Attempt(t) ==
    /\ ~crashed
    /\ task[t].ready > 0
    /\ Admits(task[t].queue)
    /\ LET st == updateStateForDispatch(task[t].state)
       IN  task' = [task EXCEPT ![t].ready = @ - 1,
                                ![t].state = st,
                                ![t].disp = @ \cup {Dispatch(st.dispatchCount, TRUE)}]
    /\ hist' = [hist EXCEPT ![t].calls = @ + 1,
                            ![t].attemptAfter2xx = @ \/ hist[t].done2xx]
    /\ UNCHANGED <<retryConfig, ts, created, bk, qs, queue, crashed, deleted, limit>>

(***************************************************************************)
(* doDispatch: the call, the state update, the reschedule decision.        *)
(***************************************************************************)
\* dispatch() returns statusCode and updateStateAfterDispatch records it
Respond(t, d, statusCode) ==
    /\ ~crashed
    /\ d \in task[t].disp
    /\ d.pc = "call"
    /\ task' = [task EXCEPT
                   ![t].state = updateStateAfterDispatch(@, statusCode, d.k),
                   ![t].disp = (@ \ {d}) \cup
                               {[d EXCEPT !.pc = "applied", !.statusCode = statusCode]}]
    /\ hist' = [hist EXCEPT ![t].completed = @ + 1]
    /\ UNCHANGED <<retryConfig, ts, created, bk, qs, queue, crashed, deleted, limit>>

\* the caller of a Run holds the snapshot until the Run's dispatch is dealt with
Dropped(returned, d) == IF returned.k = d.k THEN NoSnapshot ELSE returned

\* reschedule(), up to the call of updateStateForReschedule
Reschedule(t, d) ==
    /\ ~crashed
    /\ d \in task[t].disp
    /\ d.pc = "applied"
    /\ LET what == reschedule(d.retry, d.statusCode, task[t].state.dispatchCount,
                              retryConfig)
       IN  /\ task' = [task EXCEPT ![t].disp =
                          IF what = "retry"
                          THEN (@ \ {d}) \cup {[d EXCEPT !.pc = "update"]}
                          ELSE @ \ {d}]
           /\ ts' = IF what = "done" THEN onDone(t) ELSE ts
           /\ queue' = IF what = "done" THEN removeTask(t) ELSE queue
           /\ hist' = [hist EXCEPT
                          ![t].onDone = IF what = "done" THEN @ + 1 ELSE @,
                          ![t].done2xx = @ \/ what = "done",
                          ![t].exhausted = @ \/ what = "exhausted",
                          ![t].runFailed = @ \/ what = "none",
                          ![t].returned = Dropped(@, d)]
    /\ UNCHANGED <<retryConfig, created, bk, qs, crashed, deleted, limit>>

\* reschedule(), the rest: updateStateForReschedule and Schedule()
RescheduleUpdate(t, d) ==
    /\ ~crashed
    /\ d \in task[t].disp
    /\ d.pc = "update"
    /\ LET st == updateStateForReschedule(task[t].state, retryConfig)
       IN  /\ task' = [task EXCEPT
                          ![t] = Schedule([@ EXCEPT !.state = st,
                                                    !.disp = @ \ {d}])]
           /\ hist' = [hist EXCEPT
                          ![t].increments =
                              Append(@, I64Sub(TsNanos(st.scheduleTime),
                                               TsNanos(task[t].state.scheduleTime))),
                          ![t].lastBackoff = backoffFor(task[t].state, retryConfig),
                          ![t].prevSchedule = task[t].state.scheduleTime,
                          ![t].scheduled = @ + 1]
    /\ UNCHANGED <<retryConfig, ts, created, bk, qs, queue, crashed, deleted, limit>>

Next ==
    \/ \E name \in QueueNames : CreateQueue(name)
    \/ \E queueName \in QueueNames, name \in TaskNames, scheduleTime \in ScheduleTimes :
          CreateTask(queueName, name, scheduleTime)
    \/ \E t \in Tasks : CreateTaskStore(t)
    \/ \E name \in TaskNames : DeleteTask(name)
    \/ \E name \in TaskNames : RunTask(name)
    \/ \E t \in Tasks : TimerElapse(t)
    \/ \E t \in Tasks : WaitFire(t)
    \/ \E t \in Tasks : WaitCancel(t)
    \/ \E t \in Tasks : QueueReceive(t)
    \/ \E t \in Tasks : Attempt(t)
    \/ \E t \in Tasks : \E d \in task[t].disp, statusCode \in StatusCodes : Respond(t, d, statusCode)
    \/ \E t \in Tasks : \E d \in task[t].disp : Reschedule(t, d)
    \/ \E t \in Tasks : \E d \in task[t].disp : RescheduleUpdate(t, d)

Spec == Init /\ [][Next]_vars

(***************************************************************************)
(* The registry: the queue requests of the server, and GetTask.            *)
(***************************************************************************)
\* GetTask: the answer for a name
GetTask(name) ==
    IF lookup(ts, name) = "absent" THEN [code |-> "NotFound", task |-> <<>>]
    ELSE IF lookup(ts, name) = "nil" THEN [code |-> "FailedPrecondition", task |-> <<>>]
    ELSE [code |-> "OK", task |-> ts[name]]

\* Purge(): Delete() on each task the queue owns
Purge(name) ==
    [t \in Tasks |-> IF t \in Owned(name) THEN Delete(task[t]) ELSE task[t]]

\* what a purge of the queue means to the tasks it owns
Purged(name, byDelete) ==
    [t \in Tasks |->
        IF t \in Owned(name)
        THEN [hist[t] EXCEPT !.cancelledEarly = @ \/ BeforeElapse(t),
                             !.followed = @ \/ hist[t].exhausted,
                             !.ownedAtDelete = @ \/ byDelete]
        ELSE hist[t]]

\* the error of DeleteQueue for a name
DeleteQueueError(name) == IF LiveQueue(name) THEN "OK" ELSE "NotFound"

\* a DeleteQueue that takes the entry out of the map instead of leaving nil
DeleteQueue_Remove(name) ==
    /\ ~crashed
    /\ DeleteQueueError(name) = "OK"
    /\ queue' = [queue EXCEPT ![name].cancelled = TRUE]
    /\ task' = Purge(name)
    /\ hist' = Purged(name, TRUE)
    /\ qs' = [n \in DOMAIN qs \ {name} |-> qs[n]]
    /\ deleted' = deleted \cup {name}
    /\ UNCHANGED <<retryConfig, ts, created, bk, crashed, limit>>

\* DeleteQueue: queue.Delete() stops the admission loop and purges the
\* tasks, then the entry of the name is set to nil
DeleteQueue(name) ==
    /\ ~crashed
    /\ DeleteQueueError(name) = "OK"
    /\ queue' = [queue EXCEPT ![name].cancelled = TRUE]
    /\ task' = Purge(name)
    /\ hist' = Purged(name, TRUE)
    /\ qs' = (name :> <<>>) @@ qs
    /\ deleted' = deleted \cup {name}
    /\ UNCHANGED <<retryConfig, ts, created, bk, crashed, limit>>

\* PurgeQueue: no check of the lookup, a missing or nil queue is dereferenced
PurgeQueue(name) ==
    /\ ~crashed
    /\ IF LiveQueue(name)
       THEN /\ task' = Purge(name)
            /\ hist' = Purged(name, FALSE)
            /\ UNCHANGED crashed
       ELSE /\ crashed' = TRUE
            /\ UNCHANGED <<task, hist>>
    /\ UNCHANGED <<retryConfig, ts, created, bk, qs, queue, deleted, limit>>

\* PauseQueue: no check of the lookup
PauseQueue(name) ==
    /\ ~crashed
    /\ IF LiveQueue(name)
       THEN /\ queue' = [queue EXCEPT ![name].state = "PAUSED"]
            /\ UNCHANGED crashed
       ELSE /\ crashed' = TRUE
            /\ UNCHANGED queue
    /\ UNCHANGED <<retryConfig, ts, created, task, hist, bk, qs, deleted, limit>>

\* ResumeQueue: no check of the lookup
ResumeQueue(name) ==
    /\ ~crashed
    /\ IF LiveQueue(name)
       THEN /\ queue' = [queue EXCEPT ![name].state = "RUNNING"]
            /\ UNCHANGED crashed
       ELSE /\ crashed' = TRUE
            /\ UNCHANGED queue
    /\ UNCHANGED <<retryConfig, ts, created, task, hist, bk, qs, deleted, limit>>

\* GetQueue: queue.state of a missing or nil queue is a nil dereference
GetQueue(name) ==
    /\ ~crashed
    /\ crashed' = ~LiveQueue(name)
    /\ UNCHANGED <<retryConfig, ts, created, task, hist, bk, qs, queue, deleted, limit>>

\* ListTasks: queue.ts of a missing or nil queue is a nil dereference
ListTasks(parent) ==
    /\ ~crashed
    /\ crashed' = ~LiveQueue(parent)
    /\ UNCHANGED <<retryConfig, ts, created, task, hist, bk, qs, queue, deleted, limit>>

\* retry policies of the registry's queues
RegistryConfigs ==
    { [maxAttempts |-> 1, minBackoff |-> Dur(1, 0), maxBackoff |-> Dur(2, 0),
       maxDoublings |-> 1] }

InitRegistry ==
    /\ NewServer
    /\ retryConfig \in RegistryConfigs
    /\ bk = NoBackoff
    /\ limit = [tasks |-> Cardinality(Tasks), runs |-> 0]

NextRegistry ==
    \/ \E name \in QueueNames : CreateQueue(name)
    \/ \E queueName \in QueueNames, name \in TaskNames, scheduleTime \in ScheduleTimes :
          CreateTask(queueName, name, scheduleTime)
    \/ \E t \in Tasks : CreateTaskStore(t)
    \/ \E name \in TaskNames : DeleteTask(name)
    \/ \E t \in Tasks : TimerElapse(t)
    \/ \E t \in Tasks : WaitFire(t)
    \/ \E t \in Tasks : WaitCancel(t)
    \/ \E t \in Tasks : QueueReceive(t)
    \/ \E t \in Tasks : Attempt(t)
    \/ \E t \in Tasks : \E d \in task[t].disp, statusCode \in StatusCodes : Respond(t, d, statusCode)
    \/ \E t \in Tasks : \E d \in task[t].disp : Reschedule(t, d)
    \/ \E name \in QueueNames : DeleteQueue(name)
    \/ \E name \in QueueNames : PurgeQueue(name)
    \/ \E name \in QueueNames : PauseQueue(name)
    \/ \E name \in QueueNames : ResumeQueue(name)
    \/ \E name \in QueueNames : GetQueue(name)
    \/ \E parent \in QueueNames : ListTasks(parent)

SpecRegistry == InitRegistry /\ [][NextRegistry]_vars

(***************************************************************************)
(* The backoff of updateStateForReschedule as a table: a policy, and the   *)
(* backoff of each dispatch count from 1 up.                               *)
(***************************************************************************)
\* policies with min_backoff >= 0, max_backoff >= min_backoff, max_doublings >= 0
BackoffPolicies ==
    { ScenarioPolicy,
      [maxAttempts |-> 100, minBackoff |-> Dur(0, 200000000),
       maxBackoff |-> Dur(0, 500000000), maxDoublings |-> 2],
      [maxAttempts |-> 100, minBackoff |-> Dur(1, 0), maxBackoff |-> Dur(3600, 0),
       maxDoublings |-> 100],
      [maxAttempts |-> 100, minBackoff |-> Dur(0, 0), maxBackoff |-> Dur(0, 0),
       maxDoublings |-> 0] }

\* the backoff updateStateForReschedule computes at dispatch count n
BackoffAt(n, config) == backoffFor([NoTaskState EXCEPT !.dispatchCount = n], config)

InitBackoff ==
    /\ NewServer
    /\ limit = [tasks |-> 0, runs |-> 0]
    /\ retryConfig \in BackoffPolicies
    /\ bk = [on |-> TRUE, count |-> 1, backoff |-> BackoffAt(1, retryConfig),
             prev |-> BackoffAt(1, retryConfig)]

BackoffStep ==
    /\ bk.on
    /\ bk.count < MaxCount
    /\ bk' = [on |-> TRUE, count |-> bk.count + 1,
              backoff |-> BackoffAt(bk.count + 1, retryConfig),
              prev |-> bk.backoff]
    /\ UNCHANGED <<retryConfig, ts, created, task, hist, qs, queue, crashed, deleted, limit>>

NextBackoff == BackoffStep

SpecBackoff == InitBackoff /\ [][NextBackoff]_vars

(***************************************************************************)
(* The claims.                                                             *)
(***************************************************************************)
Is2xx(statusCode) == statusCode >= 200 /\ statusCode <= 299

Seconds(n) == I64Mul(I64(n), Second64)

\* the increments of the scenario as they come out
ScenarioIncrements == <<Seconds(1), Seconds(2), Seconds(4), Seconds(8)>>

\* the increments of the scenario as stated
StatedIncrements == <<Seconds(1), Seconds(2), Seconds(4), Seconds(8), Seconds(8)>>

\* what the holder of a snapshot reads when the task's state is taskState
Held(snap, taskState) == IF snap.shared THEN taskState ELSE snap.val

IsPrefix(s, t) == Len(s) <= Len(t) /\ s = SubSeq(t, 1, Len(s))

\* a timestamp is no later than another (both with nanos in [0, 1e9))
TsLe(a, b) ==
    \/ I64Lt(a.seconds, b.seconds)
    \/ a.seconds = b.seconds /\ a.nanos <= b.nanos

\* C1: the completion callback of a task is never invoked a second time.
C1_OnDoneAtMostOnce == \A t \in Tasks : hist[t].onDone <= 1

\* C2: once Delete() came strictly before the pending wait elapsed, the task
\* is never handed to the fire channel and onDone is not invoked twice.
C2_CancelPreventsFire ==
    \A t \in Tasks :
        hist[t].cancelledEarly =>
            /\ ~hist[t].firedAfterCancel
            /\ hist[t].onDone <= 1

\* C3: once reschedule() has dealt with a 2xx result, onDone has been invoked
\* exactly once and no attempt of the task is started any more.
C3_DoneAfter2xx ==
    \A t \in Tasks :
        hist[t].done2xx =>
            /\ hist[t].onDone = 1
            /\ ~hist[t].attemptAfter2xx

\* C4 as amended: under the scenario policy, with scheduled attempts only and
\* no success, the schedule time grows by 1s, 2s, 4s, 8s (four increments
\* between five attempts) and the task runs out of attempts at the fifth.
C4_ScenarioIncrements ==
    \A t \in Tasks :
        (retryConfig = ScenarioPolicy /\ hist[t].runs = 0) =>
            /\ IsPrefix(hist[t].increments, ScenarioIncrements)
            /\ hist[t].exhausted =>
                   /\ hist[t].increments = ScenarioIncrements
                   /\ task[t].state.dispatchCount = 5

C4_Witness ==
    \E t \in Tasks :
        /\ retryConfig = ScenarioPolicy
        /\ hist[t].runs = 0
        /\ hist[t].exhausted
        /\ Len(hist[t].increments) = 4

\* C4 as stated: under the scenario policy the increments are 1s, 2s, 4s, 8s,
\* 8s when the task runs out of attempts after the fifth attempt.
C4_AsStated ==
    \A t \in Tasks :
        (retryConfig = ScenarioPolicy /\ hist[t].runs = 0 /\ hist[t].exhausted) =>
            hist[t].increments = StatedIncrements

\* C5: for a valid policy and every dispatch count from 1 up, the backoff is
\* not negative, at most max_backoff, and not smaller than the backoff of
\* the count before.
C5_BackoffBounds ==
    bk.on =>
        /\ ~I64IsNeg(bk.backoff)
        /\ I64Le(bk.backoff, ptypesDuration(retryConfig.maxBackoff))
        /\ I64Le(bk.prev, bk.backoff)

\* C6: after an update for reschedule the schedule time is the previous one
\* plus the backoff exactly, its nanos are in [0, 1e9), and it is not earlier
\* than the previous one.
C6_ScheduleArithmetic ==
    \A t \in Tasks :
        hist[t].increments # <<>> =>
            /\ TsNanos(task[t].state.scheduleTime) =
                   I64Add(TsNanos(hist[t].prevSchedule), hist[t].lastBackoff)
            /\ task[t].state.scheduleTime.nanos >= 0
            /\ task[t].state.scheduleTime.nanos < NanosPerSecond
            /\ TsLe(hist[t].prevSchedule, task[t].state.scheduleTime)

\* C7: dispatch_count is the number of Attempt and Run invocations and
\* response_count the number of completed dispatches, whatever the
\* interleaving; so response_count <= dispatch_count.
C7_Counts ==
    \A t \in Tasks :
        /\ task[t].state.dispatchCount = hist[t].calls
        /\ task[t].state.responseCount = hist[t].completed
        /\ task[t].state.responseCount <= task[t].state.dispatchCount

\* a Run overtook an Attempt: the second dispatch has completed, the first
\* is still in its call
C7_Witness ==
    \E t \in Tasks :
        /\ hist[t].runs >= 1
        /\ \E d, e \in task[t].disp :
              d.k = 1 /\ d.pc = "call" /\ e.k = 2 /\ e.pc = "applied"

\* C8: with max_attempts = 0 a task is never declared out of attempts.
C8_ZeroIsUnbounded ==
    \A t \in Tasks : retryConfig.maxAttempts = 0 => ~hist[t].exhausted

\* C9: the snapshot Run() returned has dispatch_count one more than before
\* the call, a dispatch time, and neither response time nor response status,
\* and stays so while the dispatch result is applied to the task's own
\* state, whose response fields only come with a completed dispatch.
C9_RunSnapshot ==
    \A t \in Tasks :
        /\ hist[t].returned.set =>
              LET snap == Held(hist[t].returned.snap, task[t].state)
              IN  /\ snap.dispatchCount = hist[t].returned.prev + 1
                  /\ snap.dispatchCount = hist[t].returned.k
                  /\ snap.lastAttempt.set
                  /\ snap.lastAttempt.dispatchTime = hist[t].returned.k
                  /\ ~snap.lastAttempt.responded
                  /\ snap.lastAttempt.responseTime = 0
                  /\ snap.lastAttempt.statusCode = 0
        /\ task[t].state.lastAttempt.responded => hist[t].completed >= 1

\* the result of the Run's dispatch is applied and the caller still holds
\* the snapshot, on a fresh task
C9_Witness ==
    \E t \in Tasks :
        /\ hist[t].returned.set
        /\ hist[t].returned.prev = 0
        /\ task[t].state.lastAttempt.responded
        /\ \E d \in task[t].disp : d.k = hist[t].returned.k /\ d.pc = "applied"

\* C10: the step in which reschedule() deals with the non-2xx result of a
\* Run ends that dispatch and leaves the schedule time, the armed waits, the
\* onDone count and the registry as they were.
C10_FailedRunNoReschedule ==
    [][\A t \in Tasks : \A d \in task[t].disp :
          (/\ d.pc = "applied"
           /\ ~d.retry
           /\ ~Is2xx(d.statusCode)
           /\ d \notin task'[t].disp)
          => /\ \A e \in task'[t].disp : e.k # d.k
             /\ task'[t].state = task[t].state
             /\ task'[t].waiting = task[t].waiting
             /\ task'[t].elapsed = task[t].elapsed
             /\ hist'[t].onDone = hist[t].onDone
             /\ ts' = ts]_vars

\* a Run has failed and the wait the task was created with is still armed
C10_Witness ==
    \E t \in Tasks :
        /\ hist[t].runFailed
        /\ hist[t].onDone = 0
        /\ Armed(t) = 1
        /\ task[t].state.scheduleTime \in ScheduleTimes

\* C11: once the completion callback of a task has run, GetTask for the
\* task's name answers FailedPrecondition, neither the live task nor NotFound.
C11_FinalizedIsTombstoned ==
    \A t \in Tasks :
        hist[t].onDone >= 1 => GetTask(task[t].name).code = "FailedPrecondition"

\* C12: no step replaces an entry of the task registry or of the queue
\* registry, live or nil, by another object: an entry stays or becomes nil.
C12_NoReplace ==
    [][/\ \A n \in DOMAIN ts :
             n \in DOMAIN ts' /\ (ts'[n] = ts[n] \/ ts'[n] = <<>>)
       /\ \A n \in DOMAIN qs :
             n \in DOMAIN qs' /\ (qs'[n] = qs[n] \/ qs'[n] = <<>>)]_vars

\* a task instance that is not finalized and has a pending wait or a
\* dispatch in flight
NotFinal(t) ==
    /\ t <= created
    /\ hist[t].onDone = 0
    /\ Armed(t) > 0 \/ task[t].disp # {}

\* C13: no two task instances that are not finalized carry the same name.
C13_OneLivePerName ==
    \A t, u \in Tasks :
        (t # u /\ NotFinal(t) /\ NotFinal(u)) => task[t].name # task[u].name

Quiet(t) == Armed(t) = 0 /\ task[t].disp = {}

\* C15: a task the queue owned when it was deleted is finalized: once
\* nothing of the task is left to run, its onDone has been invoked and the
\* entry of its name is nil.
C15_DeleteFinalizes ==
    \A t \in Tasks :
        (hist[t].ownedAtDelete /\ Quiet(t)) =>
            /\ hist[t].onDone >= 1
            /\ lookup(ts, task[t].name) = "nil"

\* C16: at most one dispatch of a task is in its call at a time, and a
\* response is recorded on the attempt of the dispatch that produced it.
C16_Sequential ==
    \A t \in Tasks :
        /\ Cardinality({d \in task[t].disp : d.pc = "call"}) <= 1
        /\ task[t].state.lastAttempt.responded =>
               task[t].state.lastAttempt.responseTime =
                   task[t].state.lastAttempt.dispatchTime

\* C17: no request with an absent or nil name brings the process down.
C17_NoFatal == ~crashed

C19_ExhaustedLingers ==
    \A t \in Tasks :
        (hist[t].exhausted /\ ~hist[t].followed /\ task[t].registered) =>
            /\ hist[t].onDone = 0
            /\ Armed(t) = 0
            /\ GetTask(task[t].name) = [code |-> "OK", task |-> <<t>>]

\* C20: with max_attempts = N > 0 the dispatch count of a task is at most N.
C20_CountWithinMax ==
    \A t \in Tasks :
        retryConfig.maxAttempts > 0 =>
            task[t].state.dispatchCount <= retryConfig.maxAttempts

====
